---- MODULE Spec2Model ----
(***************************************************************************)
(* Room lifecycle and nested-resource consistency of rooms/views.py:       *)
(* Rooms.post, RoomDetail.get/put/delete, RoomBookings.get/post.           *)
(*                                                                         *)
(* The persistent store is the only shared state.  `rooms` is the          *)
(* committed Room table (with the room-amenity link rows of each room),    *)
(* `bookings` the Booking table.  `last` is the request that was handled   *)
(* last, with the table it addresses as it was before and the response.    *)
(* `tx` is the write transaction in flight and `obs` what a concurrent     *)
(* reader has just read (specification SpecTx only).                       *)
(***************************************************************************)
EXTENDS Bags, FiniteSets, Integers, Sequences, TLC

VARIABLES rooms, bookings, last, tx, obs

vars == <<rooms, bookings, last, tx, obs>>

-----------------------------------------------------------------------------
(* Bounds of the model *)

\* Room primary keys are 1..MaxRooms in Spec and SpecTx.
MaxRooms == 1
\* Room primary keys are 1..MaxHosted in SpecBookings.
MaxHosted == 2
\* Longest amenity identifier list of a request.
MaxLen == 2
\* Most Booking rows in the store.
MaxBookings == 2
\* Calendar dates are 0..MaxDate.
MaxDate == 2

-----------------------------------------------------------------------------
(* Reference data and request alphabets *)

Users == {"u1", "u2"}
Anonymous == "anon"

\* request.data.get("category") of a body without the key: None, falsy.
NoCategory == 0
\* Category rows by pk, each with its kind; pk 4 names no row.
CategoryTable == (1 :> "rooms") @@ (2 :> "rooms") @@ (3 :> "experiences")
CategoryPks == 1 .. 4

\* Amenity rows by pk; pk 3 names no row.
AmenityTable == {1, 2}
AmenityPks == 1 .. 3

\* A descriptive field (name) of a Room; NoName: the key is not in the body.
Names == {"a", "b"}
NoName == "absent"

NoLinks == [a \in AmenityTable |-> 0]

AmenityLists == UNION {[1 .. n -> AmenityPks] : n \in 0 .. MaxLen}

Range(s) == {s[i] : i \in DOMAIN s}

\* The amenities a room is linked to.
AmenitySet(room) == {a \in AmenityTable : room.amenities[a] > 0}

\* Request bodies that pass serializer.is_valid(); `names` are the values
\* the descriptive field may take.
Bodies(names) ==
    [valid : {TRUE}, category : CategoryPks \cup {NoCategory}, name : names,
     has_amenities : {TRUE}, amenities : AmenityLists]
    \cup
    [valid : {TRUE}, category : CategoryPks \cup {NoCategory}, name : names,
     has_amenities : {FALSE}, amenities : {<<>>}]

\* A body that fails serializer.is_valid().
InvalidBody(name) ==
    [valid |-> FALSE, category |-> 1, name |-> name,
     has_amenities |-> TRUE, amenities |-> <<>>]

-----------------------------------------------------------------------------
(* The store *)

NoRooms == <<>>

Exists(store, pk) == pk \in DOMAIN store

Insert(store, pk, room) == store @@ (pk :> room)

Remove(store, pk) == [k \in DOMAIN store \ {pk} |-> store[k]]

\* Room.objects.get(pk=pk) as a sequence: the row, or nothing.
Lookup(store, pk) == IF Exists(store, pk) THEN <<store[pk]>> ELSE <<>>

\* permission_classes = [IsAuthenticatedOrReadOnly] on a write method.
Authenticated(user) == user \in Users

\* serializer.save() of a partial update: only the fields of the body are
\* written.
SerializerSave(room, data) ==
    IF data.name = NoName THEN room ELSE [room EXCEPT !.name = data.name]

\* ManyToManyAdd that inserts a link row without looking for an existing one.
ManyToManyAddAgain(room, a) ==
    [room EXCEPT !.amenities[a] = @ + 1]

\* room.amenities.add(amenity): a link row is inserted only when the room
\* has none for this amenity yet.
ManyToManyAdd(room, a) ==
    IF room.amenities[a] > 0 THEN room
    ELSE [room EXCEPT !.amenities[a] = 1]

\* room.amenities.clear(): every link row of the room is deleted.
ManyToManyClear(room) == [room EXCEPT !.amenities = NoLinks]

\* if amenities: (a list that is present and not empty)
Truthy(data) == data.has_amenities /\ Len(data.amenities) > 0

-----------------------------------------------------------------------------
(* The body of `with transaction.atomic():` statement by statement.  A     *)
(* transaction works on `work`; `pre` is the committed store when it began. *)
(* pc = "commit": the block was left normally (or by return);              *)
(* pc = "abort": an exception left the block.                              *)

NoTx ==
    [op |-> "none", pc |-> "idle", pk |-> 0, user |-> Anonymous,
     data |-> InvalidBody("a"), work |-> NoRooms, pre |-> NoRooms,
     todo |-> <<>>, picked |-> 0, code |-> "none", body |-> <<>>]

BeginTx(op, store, pk, user, data) ==
    [NoTx EXCEPT !.op = op, !.pc = "save", !.pk = pk, !.user = user,
                 !.data = data, !.work = store, !.pre = store]

Abort(t) == [t EXCEPT !.pc = "abort", !.code = "ParseError"]

\* Rooms.post, the statements inside the transaction.
StepPost(t) ==
    CASE t.pc = "save" ->
           LET room == [owner |-> t.user, category |-> t.data.category,
                        name |-> t.data.name, amenities |-> NoLinks]
               saved == [t EXCEPT !.work = Insert(t.work, t.pk, room)]
           IN  IF t.data.has_amenities
               THEN [saved EXCEPT !.pc = "attach", !.todo = t.data.amenities]
               ELSE Abort(saved)
      [] t.pc = "attach" ->
           IF t.todo = <<>>
           THEN [t EXCEPT !.pc = "commit", !.code = "room",
                          !.body = <<t.work[t.pk]>>]
           ELSE IF Head(t.todo) \notin AmenityTable
           THEN Abort(t)
           ELSE [t EXCEPT !.work[t.pk] = ManyToManyAdd(@, Head(t.todo)),
                          !.todo = Tail(t.todo)]
      [] OTHER -> t

\* RoomDetail.put, the statements inside the transaction.
StepPut(t) ==
    CASE t.pc = "save" ->
           [t EXCEPT !.work[t.pk] = SerializerSave(@, t.data),
                     !.pc = "category"]
      [] t.pc = "category" ->
           LET next == IF Truthy(t.data) THEN "clear" ELSE "commit"
               code == IF Truthy(t.data) THEN t.code ELSE "errors"
               c    == t.data.category
           IN  IF c = NoCategory
               THEN [t EXCEPT !.work[t.pk] = SerializerSave(@, t.data),
                              !.pc = next, !.code = code]
               ELSE IF c \notin DOMAIN CategoryTable
               THEN Abort(t)
               ELSE IF CategoryTable[c] # "rooms"
               THEN Abort(t)
               ELSE [t EXCEPT !.work[t.pk] =
                                  [SerializerSave(@, t.data)
                                       EXCEPT !.category = c],
                              !.pc = next, !.code = code]
      [] t.pc = "clear" ->
           [t EXCEPT !.work[t.pk] = ManyToManyClear(@),
                     !.todo = t.data.amenities, !.pc = "resolve"]
      [] t.pc = "resolve" ->
           IF t.todo = <<>>
           THEN [t EXCEPT !.pc = "add"]
           ELSE IF Head(t.todo) \notin AmenityTable
           THEN Abort(t)
           ELSE [t EXCEPT !.picked = Head(t.todo), !.todo = Tail(t.todo)]
      [] t.pc = "add" ->
           LET added == [t EXCEPT !.work[t.pk] = ManyToManyAdd(@, t.picked)]
           IN  [added EXCEPT !.pc = "commit", !.code = "room",
                             !.body = <<added.work[t.pk]>>]
      [] OTHER -> t

StepTx(t) == IF t.op = "post" THEN StepPost(t) ELSE StepPut(t)

Finished(t) == t.pc \in {"commit", "abort"}

RECURSIVE RunTx(_)
RunTx(t) == IF Finished(t) THEN t ELSE RunTx(StepTx(t))

\* Atomic without the rollback: the statements that ran stay in the store.
AtomicNoRollback(committed, t) == t.work

\* transaction.atomic(): the work is committed when the block is left
\* normally and rolled back when an exception leaves it.
Atomic(committed, t) == IF t.pc = "commit" THEN t.work ELSE committed

\* Visible without isolation: the statements of a transaction in flight show.
VisibleDirty(committed, t) == IF t.pc = "idle" THEN committed ELSE t.work

\* What another connection reads while the transaction is in flight.
Visible(committed, t) == committed

-----------------------------------------------------------------------------
(* The handlers.  Each yields the committed rooms after the request and the *)
(* response: `code` is the exception raised, or "room" (the serialized      *)
(* room), "errors" (serializer.errors with status 200), "errors400"         *)
(* (serializer.errors with status 400), "no_content"; `body` holds the      *)
(* serialized room when there is one.                                       *)

Reply(store, code, body) == [rooms |-> store, code |-> code, body |-> body]

\* PostReject without the check of the category's kind.
PostRejectAnyKind(user, data) ==
    IF ~Authenticated(user) THEN "NotAuthenticated"
    ELSE IF ~data.valid THEN "errors400"
    ELSE IF data.category = NoCategory THEN "ParseError"
    ELSE IF data.category \notin DOMAIN CategoryTable THEN "ParseError"
    ELSE "none"

\* Rooms.post up to the transaction: the exception or error response that
\* ends the request, "none" when the transaction is entered.
PostReject(user, data) ==
    IF ~Authenticated(user) THEN "NotAuthenticated"
    ELSE IF ~data.valid THEN "errors400"
    ELSE IF data.category = NoCategory THEN "ParseError"
    ELSE IF data.category \notin DOMAIN CategoryTable THEN "ParseError"
    ELSE IF CategoryTable[data.category] = "experiences" THEN "ParseError"
    ELSE "none"

\* Rooms.post; pk is the primary key the store gives the new row.
RoomsPostResult(store, pk, user, data) ==
    IF PostReject(user, data) # "none"
    THEN Reply(store, PostReject(user, data), <<>>)
    ELSE LET t == RunTx(BeginTx("post", store, pk, user, data))
         IN  Reply(Atomic(store, t), t.code, t.body)

\* PutReject without the comparison of room.owner with request.user.
PutRejectAnyUser(store, pk, user, data) ==
    IF ~Authenticated(user) THEN "NotAuthenticated"
    ELSE IF ~Exists(store, pk) THEN "NotFound"
    ELSE IF ~data.valid THEN "NotAuthenticated"
    ELSE "none"

\* RoomDetail.put up to the transaction.
PutReject(store, pk, user, data) ==
    IF ~Authenticated(user) THEN "NotAuthenticated"
    ELSE IF ~Exists(store, pk) THEN "NotFound"
    ELSE IF store[pk].owner # user THEN "PermissionDenied"
    ELSE IF ~data.valid THEN "NotAuthenticated"
    ELSE "none"

\* RoomDetail.put
RoomDetailPutResult(store, pk, user, data) ==
    IF PutReject(store, pk, user, data) # "none"
    THEN Reply(store, PutReject(store, pk, user, data), <<>>)
    ELSE LET t == RunTx(BeginTx("put", store, pk, user, data))
         IN  Reply(Atomic(store, t), t.code, t.body)

\* RoomDetail.delete up to room.delete().
DeleteReject(store, pk, user) ==
    IF ~Authenticated(user) THEN "NotAuthenticated"
    ELSE IF ~Exists(store, pk) THEN "NotFound"
    ELSE IF store[pk].owner # user THEN "PermissionDenied"
    ELSE "none"

\* RoomDetail.delete
RoomDetailDeleteResult(store, pk, user) ==
    IF DeleteReject(store, pk, user) # "none"
    THEN Reply(store, DeleteReject(store, pk, user), <<>>)
    ELSE Reply(Remove(store, pk), "no_content", <<>>)

-----------------------------------------------------------------------------
(* Requests *)

Callers == Users \cup {Anonymous}

\* The bodies an anonymous caller sends: the handler never reads them.
AnonymousBodies(names) == {d \in Bodies(names) : d.category = 1 /\ d.name = "a"}

PostRequests ==
    (Users \X (Bodies(Names) \cup {InvalidBody("a")}))
    \cup ({Anonymous} \X AnonymousBodies(Names))

PutRequests ==
    (Users \X (Bodies(Names \cup {NoName}) \cup {InvalidBody(NoName)}))
    \cup ({Anonymous} \X AnonymousBodies(Names))

RoomIds == 1 .. MaxRooms

NoLast ==
    [op |-> "none", pk |-> 0, user |-> Anonymous, data |-> InvalidBody("a"),
     before |-> NoRooms, code |-> "none", body |-> <<>>]

Handled(op, pk, user, data, before, r) ==
    [op |-> op, pk |-> pk, user |-> user, data |-> data, before |-> before,
     code |-> r.code, body |-> r.body]

Idle == last.op = "none" /\ tx.pc = "idle"

-----------------------------------------------------------------------------
(* Spec: requests handled one after the other *)

Init ==
    /\ rooms = NoRooms
    /\ bookings = EmptyBag
    /\ last = NoLast
    /\ tx = NoTx
    /\ obs = <<>>

\* POST /rooms
RoomsPost ==
    /\ Idle
    /\ \E req \in PostRequests, pk \in RoomIds \ DOMAIN rooms :
         LET r == RoomsPostResult(rooms, pk, req[1], req[2])
         IN  /\ rooms' = r.rooms
             /\ last' = Handled("post", pk, req[1], req[2], rooms, r)
    /\ UNCHANGED <<bookings, tx, obs>>

\* PUT /rooms/pk
RoomDetailPut ==
    /\ Idle
    /\ \E req \in PutRequests, pk \in RoomIds :
         LET r == RoomDetailPutResult(rooms, pk, req[1], req[2])
         IN  /\ rooms' = r.rooms
             /\ last' = Handled("put", pk, req[1], req[2], rooms, r)
    /\ UNCHANGED <<bookings, tx, obs>>

\* DELETE /rooms/pk.  No Booking row exists where this action is taken, so
\* what room.delete() does to the bookings of the room is not modelled.
RoomDetailDelete ==
    /\ Idle
    /\ \E user \in Callers, pk \in RoomIds :
         LET r == RoomDetailDeleteResult(rooms, pk, user)
         IN  /\ rooms' = r.rooms
             /\ last' = Handled("delete", pk, user, InvalidBody("a"), rooms, r)
    /\ UNCHANGED <<bookings, tx, obs>>

\* The response has been sent; the next request can be taken.
Respond ==
    /\ last.op # "none"
    /\ last' = NoLast
    /\ UNCHANGED <<rooms, bookings, tx, obs>>

Next == RoomsPost \/ RoomDetailPut \/ RoomDetailDelete \/ Respond

Spec == Init /\ [][Next]_vars

-----------------------------------------------------------------------------
(* SpecTx: a write transaction runs statement by statement while other     *)
(* requests read the store.  The store's lock manager admits one write     *)
(* transaction at a time.                                                  *)

TxPostRequests ==
    {req \in PostRequests :
        /\ PostReject(req[1], req[2]) = "none"
        /\ req[2].category = 1
        /\ req[2].name = "a"}

TxPutRequests ==
    {req \in PutRequests :
        /\ req[1] \in Users
        /\ req[2].valid
        /\ req[2].category \in {NoCategory, 2, 3}
        /\ req[2].name = NoName}

\* Rooms.post enters `with transaction.atomic():`
BeginPost ==
    /\ tx.pc = "idle"
    /\ \E req \in TxPostRequests, pk \in RoomIds \ DOMAIN rooms :
         tx' = BeginTx("post", rooms, pk, req[1], req[2])
    /\ obs' = <<>>
    /\ UNCHANGED <<rooms, bookings, last>>

\* RoomDetail.put enters `with transaction.atomic():`
BeginPut ==
    /\ tx.pc = "idle"
    /\ \E req \in TxPutRequests, pk \in RoomIds :
         /\ PutReject(rooms, pk, req[1], req[2]) = "none"
         /\ tx' = BeginTx("put", rooms, pk, req[1], req[2])
    /\ obs' = <<>>
    /\ UNCHANGED <<rooms, bookings, last>>

\* The next statement of the transaction.
TxStatement ==
    /\ tx.pc # "idle"
    /\ ~Finished(tx)
    /\ tx' = StepTx(tx)
    /\ obs' = <<>>
    /\ UNCHANGED <<rooms, bookings, last>>

\* The transaction block is left: commit or rollback.
TxEnd ==
    /\ Finished(tx)
    /\ rooms' = Atomic(rooms, tx)
    /\ tx' = NoTx
    /\ obs' = <<>>
    /\ UNCHANGED <<bookings, last>>

\* GET /rooms/pk from another request (RoomDetail.get).
RoomDetailGet ==
    /\ \E pk \in RoomIds :
         obs' = <<[pk |-> pk, row |-> Lookup(Visible(rooms, tx), pk)]>>
    /\ UNCHANGED <<rooms, bookings, last, tx>>

NextTx == BeginPost \/ BeginPut \/ TxStatement \/ TxEnd \/ RoomDetailGet

SpecTx == Init /\ [][NextTx]_vars

-----------------------------------------------------------------------------
(* SpecBookings: rooms and their bookings *)

HostedIds == 1 .. MaxHosted
Dates == 0 .. MaxDate

BookingBodies == [check_in : Dates, check_out : Dates]

\* CreateRoomBookingSerializer.is_valid(): both dates, check_in before
\* check_out.
BookingIsValid(data) == data.check_in < data.check_out

\* serializer.save(room=room, user=request.user, kind=ROOM)
BookingSave(pk, user, data) ==
    [room |-> pk, user |-> user, kind |-> "room",
     check_in |-> data.check_in, check_out |-> data.check_out]

\* UpcomingBookings with check_in__gte in place of check_in__gt.
UpcomingBookingsFromToday(bks, pk, now) ==
    LET hit == {b \in BagToSet(bks) :
                   b.room = pk /\ b.kind = "room" /\ b.check_in >= now}
    IN  [b \in hit |-> bks[b]]

\* Booking.objects.filter(room=room, kind=ROOM, check_in__gt=now)
UpcomingBookings(bks, pk, now) ==
    LET hit == {b \in BagToSet(bks) :
                   b.room = pk /\ b.kind = "room" /\ b.check_in > now}
    IN  [b \in hit |-> bks[b]]

\* RoomBookings.get; now is the local date of the server.
RoomBookingsGetResult(store, bks, pk, now) ==
    IF ~Exists(store, pk) THEN [code |-> "NotFound", body |-> EmptyBag]
    ELSE [code |-> "bookings", body |-> UpcomingBookings(bks, pk, now)]

\* Two bookings overlap when their [check_in, check_out) intervals meet.
Overlap(b, data) ==
    b.check_in < data.check_out /\ data.check_in < b.check_out

\* RoomBookingsPostResult with an overlap check before the save.
RoomBookingsPostGuarded(store, bks, pk, user, data) ==
    IF ~Authenticated(user)
    THEN [bookings |-> bks, code |-> "NotAuthenticated", body |-> <<>>]
    ELSE IF ~Exists(store, pk)
    THEN [bookings |-> bks, code |-> "NotFound", body |-> <<>>]
    ELSE IF ~BookingIsValid(data)
    THEN [bookings |-> bks, code |-> "errors", body |-> <<>>]
    ELSE IF \E b \in BagToSet(bks) :
                b.room = pk /\ b.kind = "room" /\ Overlap(b, data)
    THEN [bookings |-> bks, code |-> "errors", body |-> <<>>]
    ELSE [bookings |-> bks (+) SetToBag({BookingSave(pk, user, data)}),
          code |-> "booking", body |-> <<BookingSave(pk, user, data)>>]

\* RoomBookings.post
RoomBookingsPostResult(store, bks, pk, user, data) ==
    IF ~Authenticated(user)
    THEN [bookings |-> bks, code |-> "NotAuthenticated", body |-> <<>>]
    ELSE IF ~Exists(store, pk)
    THEN [bookings |-> bks, code |-> "NotFound", body |-> <<>>]
    ELSE IF ~BookingIsValid(data)
    THEN [bookings |-> bks, code |-> "errors", body |-> <<>>]
    ELSE [bookings |-> bks (+) SetToBag({BookingSave(pk, user, data)}),
          code |-> "booking", body |-> <<BookingSave(pk, user, data)>>]

\* A booking of an experience, made by the experiences application: it
\* refers to no room.
ExperienceBookingRow(user, d) ==
    [room |-> 0, user |-> user, kind |-> "experience",
     check_in |-> d, check_out |-> d + 1]

HostRequests ==
    {req \in PostRequests :
        /\ req[1] = "u1"
        /\ req[2].valid
        /\ req[2].category = 1
        /\ req[2].name = "a"
        /\ req[2].has_amenities
        /\ req[2].amenities = <<>>}

\* POST /rooms of a host
RoomsPostHost ==
    /\ Idle
    /\ \E req \in HostRequests, pk \in HostedIds \ DOMAIN rooms :
         LET r == RoomsPostResult(rooms, pk, req[1], req[2])
         IN  /\ rooms' = r.rooms
             /\ last' = Handled("post", pk, req[1], req[2], rooms, r)
    /\ UNCHANGED <<bookings, tx, obs>>

\* GET /rooms/pk/bookings
RoomBookingsGet ==
    /\ Idle
    /\ \E pk \in HostedIds, now \in Dates :
         LET r == RoomBookingsGetResult(rooms, bookings, pk, now)
         IN  last' = Handled("bookings_get", pk, Anonymous, [now |-> now],
                             bookings, r)
    /\ UNCHANGED <<rooms, bookings, tx, obs>>

\* POST /rooms/pk/bookings
RoomBookingsPost ==
    /\ Idle
    /\ BagCardinality(bookings) < MaxBookings
    /\ \E pk \in HostedIds, user \in Callers, data \in BookingBodies :
         LET r == RoomBookingsPostResult(rooms, bookings, pk, user, data)
         IN  /\ bookings' = r.bookings
             /\ last' = Handled("bookings_post", pk, user, data, bookings, r)
    /\ UNCHANGED <<rooms, tx, obs>>

\* A booking of an experience is stored.
ExperienceBooking ==
    /\ Idle
    /\ BagCardinality(bookings) < MaxBookings
    /\ \E user \in Users, d \in Dates :
         /\ d + 1 \in Dates
         /\ bookings' = bookings (+) SetToBag({ExperienceBookingRow(user, d)})
    /\ UNCHANGED <<rooms, last, tx, obs>>

NextBookings ==
    RoomsPostHost \/ RoomBookingsGet \/ RoomBookingsPost \/ ExperienceBooking
    \/ Respond

SpecBookings == Init /\ [][NextBookings]_vars

-----------------------------------------------------------------------------
(* Properties.  In a state with last.op # "none" a request has just been    *)
(* handled: last.before is the committed table before it, rooms and         *)
(* bookings are the tables after it.                                        *)

Resolvable(list) == \A i \in DOMAIN list : list[i] \in AmenityTable

RoomKind(c) == c \in DOMAIN CategoryTable /\ CategoryTable[c] = "rooms"

ExperienceKind(c) == c \in DOMAIN CategoryTable /\ CategoryTable[c] = "experiences"

ValidationErrors == {"ParseError", "errors400"}

\* C1: a Room create whose amenity list holds an identifier of no Amenity,
\* at any position, leaves the Room table and the links as they were and
\* ends in an error, a validation error for every authenticated caller.
C1_CreateRollsBack ==
    (/\ last.op = "post"
     /\ last.data.has_amenities
     /\ ~Resolvable(last.data.amenities))
    => /\ rooms = last.before
       /\ last.code # "room"
       /\ Authenticated(last.user) => last.code \in ValidationErrors

\* A create that had attached an amenity before it met the unknown one.
C1_Witness ==
    /\ last.op = "post"
    /\ PostReject(last.user, last.data) = "none"
    /\ Len(last.data.amenities) > 1
    /\ last.data.amenities[1] \in AmenityTable
    /\ last.data.amenities[2] \notin AmenityTable
    /\ last.code = "ParseError"

\* C2: an update by the owner that succeeds with a list of resolvable
\* amenity identifiers leaves the room with exactly the listed amenities.
C2_UpdateReplacesAmenities ==
    (/\ last.op = "put"
     /\ PutReject(last.before, last.pk, last.user, last.data) = "none"
     /\ last.data.has_amenities
     /\ Len(last.data.amenities) > 0
     /\ Resolvable(last.data.amenities)
     /\ last.code = "room")
    => AmenitySet(rooms[last.pk]) = Range(last.data.amenities)

\* C3: every stored Room has a category of kind ROOM; a create or update
\* that names a category of kind EXPERIENCE changes no Room and fails, with
\* a validation error once it is past access control and the schema.
C3_CategoryKindIsRoom ==
    /\ \A pk \in DOMAIN rooms : RoomKind(rooms[pk].category)
    /\ (last.op \in {"post", "put"} /\ ExperienceKind(last.data.category))
       => /\ rooms = last.before
          /\ last.code \notin {"room", "errors"}
          /\ (last.op = "post" /\ Authenticated(last.user))
             => last.code \in ValidationErrors
          /\ (/\ last.op = "put"
              /\ PutReject(last.before, last.pk, last.user, last.data) = "none")
             => last.code = "ParseError"

\* An update by the owner that names an EXPERIENCE category and a new name.
C3_Witness ==
    /\ last.op = "put"
    /\ ExperienceKind(last.data.category)
    /\ PutReject(last.before, last.pk, last.user, last.data) = "none"
    /\ last.data.name \in Names
    /\ last.data.name # last.before[last.pk].name
    /\ last.code = "ParseError"

\* C4: update and delete of an existing Room by anyone but its owner leave
\* the Room table as it was; an authenticated caller gets PermissionDenied,
\* an anonymous one NotAuthenticated.  The table changes only for the owner.
C4_OwnerOnly ==
    (last.op \in {"put", "delete"} /\ Exists(last.before, last.pk))
    => /\ last.user # last.before[last.pk].owner
          => /\ rooms = last.before
             /\ last.code = IF Authenticated(last.user)
                            THEN "PermissionDenied" ELSE "NotAuthenticated"
       /\ rooms # last.before => last.user = last.before[last.pk].owner

\* An update with a valid body by an authenticated user who is not the owner.
C4_Witness ==
    /\ last.op = "put"
    /\ Exists(last.before, last.pk)
    /\ Authenticated(last.user)
    /\ last.user # last.before[last.pk].owner
    /\ last.data.valid
    /\ last.data.name \in Names
    /\ last.data.name # last.before[last.pk].name
    /\ last.code = "PermissionDenied"

\* C5: a create by an authenticated caller with a valid body, a ROOM
\* category and a list of resolvable amenity identifiers succeeds: exactly
\* one Room is new, owned by the caller, with that category and exactly the
\* listed amenities, one link each; the other Rooms are as before.
C5_CreateAttachesAll ==
    (/\ last.op = "post"
     /\ Authenticated(last.user)
     /\ last.data.valid
     /\ RoomKind(last.data.category)
     /\ last.data.has_amenities
     /\ Resolvable(last.data.amenities))
    => /\ last.code = "room"
       /\ last.pk \notin DOMAIN last.before
       /\ DOMAIN rooms = DOMAIN last.before \cup {last.pk}
       /\ \A k \in DOMAIN last.before : rooms[k] = last.before[k]
       /\ rooms[last.pk].owner = last.user
       /\ rooms[last.pk].category = last.data.category
       /\ AmenitySet(rooms[last.pk]) = Range(last.data.amenities)
       /\ \A a \in AmenityTable : rooms[last.pk].amenities[a] <= 1
       /\ last.body = <<rooms[last.pk]>>

\* A create that succeeded with an identifier repeated in its list.
C5_Witness ==
    /\ last.op = "post"
    /\ last.code = "room"
    /\ Len(last.data.amenities) > 1
    /\ last.data.amenities[1] = last.data.amenities[2]
    /\ AmenitySet(rooms[last.pk]) = {last.data.amenities[1]}

\* The request of an update makes its transaction fail.
PutFailsInside(data) ==
    \/ data.category # NoCategory /\ ~RoomKind(data.category)
    \/ data.has_amenities /\ ~Resolvable(data.amenities)

\* C6: an update by the owner that fails inside the transaction (category
\* not found or not of kind ROOM, or an amenity identifier of no Amenity)
\* leaves the Room table, links included, as it was.
C6_UpdateRollsBack ==
    (/\ last.op = "put"
     /\ PutReject(last.before, last.pk, last.user, last.data) = "none"
     /\ PutFailsInside(last.data))
    => /\ rooms = last.before
       /\ last.code = "ParseError"

\* An update that had written a new name and a new category and cleared
\* the links before it met the unknown amenity.
C6_Witness ==
    /\ last.op = "put"
    /\ PutReject(last.before, last.pk, last.user, last.data) = "none"
    /\ last.data.name \in Names
    /\ last.data.name # last.before[last.pk].name
    /\ RoomKind(last.data.category)
    /\ last.data.category # last.before[last.pk].category
    /\ AmenitySet(last.before[last.pk]) # {}
    /\ Len(last.data.amenities) > 1
    /\ last.data.amenities[1] \in AmenityTable
    /\ last.data.amenities[2] \notin AmenityTable
    /\ last.code = "ParseError"

\* The committed row of room pk when the transaction in flight began, and
\* when it has ended.
RowBefore(pk) == Lookup(IF tx.pc = "idle" THEN rooms ELSE tx.pre, pk)
RowAfter(pk) ==
    Lookup(IF tx.pc = "idle" THEN rooms ELSE Atomic(tx.pre, RunTx(tx)), pk)

\* C7: what a reader has read of a Room is the row as it was before the
\* write transaction in flight or as it is after that transaction ends,
\* never a row the transaction has written and not committed.
C7_NoIntermediateRead ==
    obs # <<>> => obs[1].row \in {RowBefore(obs[1].pk), RowAfter(obs[1].pk)}

\* A read of a Room while an update has cleared its links and not yet
\* attached the new one.
C7_Witness ==
    /\ obs # <<>>
    /\ tx.op = "put"
    /\ tx.pc \in {"resolve", "add"}
    /\ obs[1].pk = tx.pk
    /\ AmenitySet(tx.pre[tx.pk]) # {}
    /\ AmenitySet(tx.work[tx.pk]) = {}

\* C8: every update that succeeds returns the updated Room, with a list of
\* amenities in the body and without one.
C8_UpdateReturnsRoom ==
    (/\ last.op = "put"
     /\ PutReject(last.before, last.pk, last.user, last.data) = "none"
     /\ ~PutFailsInside(last.data))
    => /\ last.code = "room"
       /\ last.body = <<rooms[last.pk]>>

\* The copies of row b in table bks.
Copies(bks, b) == IF b \in BagToSet(bks) THEN bks[b] ELSE 0

\* C9: the bookings listed for a room on date now are exactly the stored
\* Bookings of that room of kind ROOM with check_in after now.
C9_ListUpcomingExact ==
    (last.op = "bookings_get" /\ last.code = "bookings")
    => /\ \A b \in BagToSet(last.body) :
            /\ b.room = last.pk
            /\ b.kind = "room"
            /\ b.check_in > last.data.now
            /\ Copies(last.body, b) = Copies(bookings, b)
       /\ \A b \in BagToSet(bookings) :
            (b.room = last.pk /\ b.kind = "room" /\ b.check_in > last.data.now)
            => Copies(last.body, b) = Copies(bookings, b)

\* A listing that returns a booking and leaves out one of the same room
\* that checks in on the very date.
C9_Witness ==
    /\ last.op = "bookings_get"
    /\ last.body # EmptyBag
    /\ \E b \in BagToSet(bookings) :
         /\ b.room = last.pk
         /\ b.kind = "room"
         /\ b.check_in = last.data.now
         /\ b \notin BagToSet(last.body)

\* C10: a booking request of an authenticated caller for an existing room
\* with check_in before check_out is stored whatever the room's bookings
\* are, overlapping ones included, as a row with that room, the caller as
\* user and kind ROOM; nothing else in the table changes.
C10_BookingAlwaysStored ==
    (/\ last.op = "bookings_post"
     /\ Authenticated(last.user)
     /\ Exists(rooms, last.pk)
     /\ last.data.check_in < last.data.check_out)
    => LET row == [room |-> last.pk, user |-> last.user, kind |-> "room",
                   check_in |-> last.data.check_in,
                   check_out |-> last.data.check_out]
       IN  /\ last.code = "booking"
           /\ last.body = <<row>>
           /\ bookings = last.before (+) SetToBag({row})

\* A booking stored although the room had a ROOM booking that overlaps it.
C10_Witness ==
    /\ last.op = "bookings_post"
    /\ last.code = "booking"
    /\ \E b \in BagToSet(last.before) :
         /\ b.room = last.pk
         /\ b.kind = "room"
         /\ Overlap(b, last.data)

====
